---- MODULE Spec2Model ----
(***************************************************************************)
(* Node-group readiness controller of hrishin/eks-infra                    *)
(* (iac-modules/cluster-infra/v1.33-v1/node_groups/node_groups.py):        *)
(* WaitForAsgReady._wait_for_asg_ready, its nested Kubernetes node wait,   *)
(* create_node_groups and the aggregator await_node_groups_ready.          *)
(*                                                                         *)
(* Each node group's wait is a process.  Its clock now[g] is time.time()   *)
(* read by that wait, measured from the start of the wait; it advances     *)
(* only in time.sleep(poll_interval_seconds), by exactly the interval.     *)
(* One action is one loop iteration (deadline test, API call, decision,    *)
(* sleep), so the waits of different groups interleave at iterations.      *)
(***************************************************************************)
EXTENDS Integers, Sequences, FiniteSets, TLC

\* ------------------------------------------------------------------ bounds
MaxDesired == 2      \* DesiredCapacity of a describe response is 0..MaxDesired
MaxInstances == 2    \* a describe response lists at most this many instances
MaxNodes == 2        \* a list-nodes response holds at most this many nodes
MaxFiles == 2        \* temporary file names the OS can hand out
MaxUrlLen == 3       \* a presigned URL has at most this many characters

\* --------------------------------------------------------- program constants
KubernetesTimeoutCap == 300      \* min(timeout_seconds, 300)
DefaultTimeout == 900            \* ng_config.get("readiness_timeout_seconds", 900)
DefaultPollInterval == 15        \* ng_config.get("readiness_poll_interval_seconds", 15)

\* ------------------------------------------------------------------ inputs
Groups == {"workers", "gpu"}

\* <<readiness_timeout_seconds, readiness_poll_interval_seconds>> of an awaited
\* group: the policies tried on one awaited group, and the policy of each
\* group when any subset of the groups is awaited
PolicySet == {<<30, 10>>, <<400, 75>>, <<0, 10>>}
ConcurrentPolicy == [workers |-> <<20, 10>>, gpu |-> <<10, 10>>]

\* a group without "await": ng_config.get("await", False), and the defaults
NoAwaitConfig ==
    [await |-> FALSE, timeout_seconds |-> DefaultTimeout,
     poll_interval_seconds |-> DefaultPollInterval]

AwaitConfig(p) ==
    [await |-> TRUE, timeout_seconds |-> p[1], poll_interval_seconds |-> p[2]]

NodeGroupsConfigs ==
    {[g \in Groups |-> IF g \in awaited THEN AwaitConfig(ConcurrentPolicy[g])
                                         ELSE NoAwaitConfig] : awaited \in SUBSET Groups}
    \cup {[g \in Groups |-> IF g = "workers" THEN AwaitConfig(p) ELSE NoAwaitConfig] :
            p \in PolicySet}

\* the four optional constructor arguments of WaitForAsgReady; a context is
\* the set of those that are truthy (not None, not ""): all four, or all but one
ContextFields == {"cluster_name", "cluster_endpoint", "cluster_ca_data", "node_group_label"}
Contexts == {ContextFields} \cup {ContextFields \ {f} : f \in ContextFields}

\* an instance of a describe response: LifecycleState and HealthStatus
\* ("" stands for a missing key: instance.get(...) is None)
InstanceKinds ==
    {[LifecycleState |-> "InService", HealthStatus |-> "Healthy"],
     [LifecycleState |-> "InService", HealthStatus |-> "Unhealthy"],
     [LifecycleState |-> "Pending", HealthStatus |-> "Healthy"],
     [LifecycleState |-> "inservice", HealthStatus |-> "Healthy"],
     [LifecycleState |-> "InService", HealthStatus |-> ""]}

\* a node of a list-nodes response: the sequence of its reported conditions
ConditionReadyTrue == [type |-> "Ready", status |-> "True"]
ConditionReadyFalse == [type |-> "Ready", status |-> "False"]
ConditionPressure == [type |-> "MemoryPressure", status |-> "True"]
NodeKinds ==
    {<<ConditionReadyTrue>>, <<ConditionReadyFalse>>,
     <<ConditionPressure, ConditionReadyTrue>>}

RECURSIVE SeqsUpTo(_, _)
SeqsUpTo(S, n) ==
    IF n = 0 THEN {<<>>}
    ELSE LET shorter == SeqsUpTo(S, n - 1)
         IN shorter \cup {Append(s, x) : s \in {t \in shorter : Len(t) = n - 1}, x \in S}

InstanceLists == SeqsUpTo(InstanceKinds, MaxInstances)
NodeLists == SeqsUpTo(NodeKinds, MaxNodes)
FileNames == 1..MaxFiles

\* ------------------------------------------------------------------- state
VARIABLES
    dryRun,            \* pulumi.runtime.is_dry_run()
    enable_flux,       \* config_data["enable_flux"]
    node_groups_config,\* group -> its configuration
    context,           \* the truthy fields among ContextFields
    mainPc,            \* position of main(): "create", "await", "flux", "built"
    readiness_checks,  \* groups that own a WaitForAsgReady controller
    ng_await,          \* the aggregate Output: "uncalled", "pending", "true"
    flux,              \* the Flux bootstrap: "absent", "waiting", "started"
    pc,                \* group -> position of its wait
    now,               \* group -> time.time() seen by its wait, from its start
    last,              \* group -> outcome of its latest describe call
    describes,         \* group -> describe calls issued
    mints,             \* group -> calls of _generate_bearer_token
    lists,             \* group -> list-nodes calls issued
    kdeadline,         \* group -> deadline of its Kubernetes wait
    last_error,        \* group -> last_error of its Kubernetes wait
    last_list,         \* group -> outcome of its latest list-nodes call
    ca_file_path,      \* group -> <<name>> of the CA file its wait holds, or <<>>
    files,             \* temporary files that exist
    k8s_exc,           \* group -> exception that ended its Kubernetes wait
    result,            \* group -> <<dict>> returned by _wait_for_asg_ready, or <<>>
    raised,            \* group -> <<exception>> raised by _wait_for_asg_ready, or <<>>
    signed_url,        \* the presigned URL a call of _generate_bearer_token signs
    token              \* the outcome of that call

vars == <<dryRun, enable_flux, node_groups_config, context, mainPc, readiness_checks,
          ng_await, flux,
          pc, now, last, describes, mints, lists, kdeadline, last_error, last_list,
          ca_file_path, files, k8s_exc, result, raised, signed_url, token>>

configVars == <<dryRun, enable_flux, node_groups_config, context>>
tokenVars == <<signed_url, token>>
mainVars == <<mainPc, readiness_checks, ng_await, flux>>
k8sVars == <<mints, lists, kdeadline, last_error, last_list, ca_file_path, files,
            k8s_exc>>

\* --------------------------------------------------------- pure functions
Range(s) == {s[i] : i \in 1..Len(s)}

Min(a, b) == IF a < b THEN a ELSE b

\* mutant of healthy_instances: HealthStatus is not read
healthy_instances_LifecycleOnly(instances) ==
    Cardinality({i \in 1..Len(instances) : instances[i].LifecycleState = "InService"})

\* sum(1 for instance in instances if LifecycleState == "InService" and
\*                                    HealthStatus == "Healthy")
RECURSIVE healthy_instances(_)
healthy_instances(instances) ==
    IF instances = <<>> THEN 0
    ELSE (IF /\ Head(instances).LifecycleState = "InService"
             /\ Head(instances).HealthStatus = "Healthy"
          THEN 1 ELSE 0) + healthy_instances(Tail(instances))

\* mutants of IsHealthy: a strict comparison, and an exact one
IsHealthy_Strict(desired_capacity, healthy) ==
    desired_capacity = 0 \/ healthy > desired_capacity

IsHealthy_Exact(desired_capacity, healthy) ==
    desired_capacity = 0 \/ healthy = desired_capacity

\* if desired_capacity == 0 or healthy_instances >= desired_capacity:
IsHealthy(desired_capacity, healthy) ==
    desired_capacity = 0 \/ healthy >= desired_capacity

\* mutants of KubernetesCheckApplies: the capacity test dropped, and the
\* test of cluster_ca_data dropped
KubernetesCheckApplies_AnyCapacity(desired_capacity, ctx) ==
    /\ "cluster_name" \in ctx
    /\ "cluster_endpoint" \in ctx
    /\ "cluster_ca_data" \in ctx
    /\ "node_group_label" \in ctx

KubernetesCheckApplies_NoCaData(desired_capacity, ctx) ==
    /\ desired_capacity > 0
    /\ "cluster_name" \in ctx
    /\ "cluster_endpoint" \in ctx
    /\ "node_group_label" \in ctx

\* if desired_capacity > 0 and cluster_name and cluster_endpoint and
\*    cluster_ca_data and node_group_label:
KubernetesCheckApplies(desired_capacity, ctx) ==
    /\ desired_capacity > 0
    /\ "cluster_name" \in ctx
    /\ "cluster_endpoint" \in ctx
    /\ "cluster_ca_data" \in ctx
    /\ "node_group_label" \in ctx

\* mutant of kubernetes_timeout: the cap of 300 seconds is missing
kubernetes_timeout_Uncapped(timeout) == timeout

\* kubernetes_timeout = min(timeout_seconds, 300)
kubernetes_timeout(timeout) == Min(timeout, KubernetesTimeoutCap)

\* mutant of NodeIsReady: the status of the Ready condition is not read
NodeIsReady_AnyStatus(node) ==
    \E i \in 1..Len(node) : node[i].type = "Ready"

\* a node is counted when one of its conditions has type "Ready", status "True"
NodeIsReady(node) ==
    \E i \in 1..Len(node) : node[i].type = "Ready" /\ node[i].status = "True"

RECURSIVE ready_nodes(_)
ready_nodes(items) ==
    IF items = <<>> THEN 0
    ELSE (IF NodeIsReady(Head(items)) THEN 1 ELSE 0) + ready_nodes(Tail(items))

\* mutant of NodesReady: one Ready node is enough
NodesReady_One(ready, desired_capacity) == ready >= 1 \/ ready >= desired_capacity

\* if ready_nodes >= desired_capacity:
NodesReady(ready, desired_capacity) == ready >= desired_capacity

\* ------------------------------------------------------------ result values
\* the dict returned in dry-run (no "kubernetes" key)
DryRunResult(g) ==
    [asg_name |-> g, desired_capacity |-> 0, healthy_instances |-> 0]

\* the dict returned by a healthy poll; kubernetes is <<>> for None
ReadinessResult(g, desired_capacity, healthy, kubernetes) ==
    [asg_name |-> g, desired_capacity |-> desired_capacity,
     healthy_instances |-> healthy, kubernetes |-> kubernetes]

\* the dict returned by _wait_for_kubernetes_nodes_ready
ReadyDetails(g, ready, desired_capacity) ==
    [node_group |-> g, ready_nodes |-> ready,
     expected_ready_nodes |-> desired_capacity, status |-> "ready"]

\* mutant of FailedDetails: the count of the latest list-nodes call is reported
FailedDetails_LastSeen(g, desired_capacity) ==
    [node_group |-> g, ready_nodes |-> last_list[g].ready_nodes,
     expected_ready_nodes |-> desired_capacity, status |-> "failed"]

\* the dict built by the except clause around the Kubernetes wait
FailedDetails(g, desired_capacity) ==
    [node_group |-> g, ready_nodes |-> 0,
     expected_ready_nodes |-> desired_capacity, status |-> "failed"]

\* Exception("Timed out after {timeout_seconds}s waiting for Auto Scaling Group
\* {asg_name} to become healthy.")
OuterTimeout(g, timeout) ==
    [kind |-> "timeout", asg_name |-> g, seconds |-> timeout]

NoOutcome == [kind |-> "none", desired_capacity |-> 0, healthy_instances |-> 0]
NoException == [kind |-> "none", last_error |-> "none"]
NoList == [kind |-> "none", ready_nodes |-> 0]
NoToken == [status |-> "none", value |-> <<>>]

\* -------------------------------------------------------------------- Init
\* no aggregator call, no Flux bootstrap and no step of any wait has happened
NothingRun ==
    /\ ng_await = "uncalled"
    /\ flux = "absent"
    /\ now = [g \in Groups |-> 0]
    /\ last = [g \in Groups |-> NoOutcome]
    /\ describes = [g \in Groups |-> 0]
    /\ mints = [g \in Groups |-> 0]
    /\ lists = [g \in Groups |-> 0]
    /\ kdeadline = [g \in Groups |-> 0]
    /\ last_error = [g \in Groups |-> "none"]
    /\ last_list = [g \in Groups |-> NoList]
    /\ ca_file_path = [g \in Groups |-> <<>>]
    /\ files = {}
    /\ k8s_exc = [g \in Groups |-> NoException]
    /\ result = [g \in Groups |-> <<>>]
    /\ raised = [g \in Groups |-> <<>>]

\* main has not called create_node_groups yet: no controller, no wait
NotStarted ==
    /\ mainPc = "create"
    /\ readiness_checks = {}
    /\ pc = [g \in Groups |-> "absent"]
    /\ NothingRun

Init ==
    /\ dryRun \in BOOLEAN
    /\ enable_flux \in BOOLEAN
    /\ node_groups_config \in NodeGroupsConfigs
    /\ context \in Contexts
    /\ NotStarted
    /\ signed_url = <<>>
    /\ token = NoToken

timeout_seconds(g) == node_groups_config[g].timeout_seconds
poll_interval_seconds(g) == node_groups_config[g].poll_interval_seconds

\* mutant of deadline: one more interval is granted
deadline_Late(g) == timeout_seconds(g) + poll_interval_seconds(g)

\* deadline = time.time() + timeout_seconds, with time.time() = 0 at the start
deadline(g) == timeout_seconds(g)

\* ------------------------------------------------------------ main program
\* mutant of create_node_groups: a controller for every group, opted in or not
create_node_groups_Everyone ==
    /\ mainPc = "create"
    /\ mainPc' = "await"
    /\ readiness_checks' = Groups
    /\ pc' = [g \in Groups |-> "start"]
    /\ UNCHANGED <<configVars, tokenVars, ng_await, flux, now, last, describes, k8sVars, result,
                   raised>>

\* create_node_groups: one controller per group with await = true
create_node_groups ==
    /\ mainPc = "create"
    /\ mainPc' = "await"
    /\ readiness_checks' = {g \in Groups : node_groups_config[g].await}
    /\ pc' = [g \in Groups |-> IF node_groups_config[g].await THEN "start" ELSE "absent"]
    /\ UNCHANGED <<configVars, tokenVars, ng_await, flux, now, last, describes, k8sVars, result,
                   raised>>

\* mutant of ready: failed kubernetes details keep ready unresolved
ready_UnlessFailed(g) ==
    /\ result[g] # <<>>
    /\ \/ "kubernetes" \notin DOMAIN result[g][1]
       \/ result[g][1].kubernetes = <<>>
       \/ result[g][1].kubernetes[1].status # "failed"

\* self.ready = readiness_details.apply(lambda _: True)
ready(g) == result[g] # <<>>

awaited_groups == {g \in Groups : node_groups_config[g].await}

\* mutant of ready_outputs: a missing controller is not skipped
ready_outputs_AllAwaited == awaited_groups

ready_outputs == {g \in awaited_groups : g \in readiness_checks}

\* mutant of AggregateAtCall: the dry-run test is missing
AggregateAtCall_NoDryRun ==
    IF awaited_groups = {} THEN "true"
    ELSE IF ready_outputs = {} THEN "true"
    ELSE "pending"

\* the value await_node_groups_ready returns when it is called
AggregateAtCall ==
    IF awaited_groups = {} THEN "true"
    ELSE IF dryRun THEN "true"
    ELSE IF ready_outputs = {} THEN "true"
    ELSE "pending"

await_node_groups_ready ==
    /\ mainPc = "await"
    /\ mainPc' = "flux"
    /\ ng_await' = AggregateAtCall
    /\ UNCHANGED <<configVars, tokenVars, readiness_checks, flux, pc, now, last, describes, k8sVars,
                   result, raised>>

\* mutants of AllReady: the first resolved output resolves the aggregate, and
\* the aggregate waits for every group, opted in or not
AllReady_Any == \E g \in ready_outputs : ready(g)

AllReady_Everyone == \A g \in Groups : ready(g)

\* when Output.all(*ready_outputs) resolves, the apply callback returns True
AllReady == \A g \in ready_outputs : ready(g)

log_and_return ==
    /\ ng_await = "pending"
    /\ AllReady
    /\ ng_await' = "true"
    /\ UNCHANGED <<configVars, tokenVars, mainPc, readiness_checks, flux, pc, now, last, describes,
                   k8sVars, result, raised>>

\* main, after the aggregator: the readiness barrier wraps ng_await, and
\* if config_data["enable_flux"]: bootstrap_flux is declared with
\* additional_dependencies = every readiness controller and the barrier
bootstrap_flux ==
    /\ mainPc = "flux"
    /\ mainPc' = "built"
    /\ flux' = IF enable_flux THEN "waiting" ELSE "absent"
    /\ UNCHANGED <<configVars, tokenVars, readiness_checks, ng_await, pc, now, last, describes,
                   k8sVars, result, raised>>

\* flux_dependencies.extend(node_groups["autoscaling_group_readiness"].values())
flux_dependencies == readiness_checks

\* mutant of FluxDependenciesResolved: the barrier is the only dependency
FluxDependenciesResolved_BarrierOnly == ng_await = "true"

\* a dependency is resolved when the outputs the component registered have
\* resolved: ready of each controller, and ready of the barrier (= ng_await)
FluxDependenciesResolved ==
    /\ \A g \in flux_dependencies : ready(g)
    /\ ng_await = "true"

\* the engine starts the Flux bootstrap once its dependencies are resolved
StartFlux ==
    /\ flux = "waiting"
    /\ FluxDependenciesResolved
    /\ flux' = "started"
    /\ UNCHANGED <<configVars, tokenVars, mainPc, readiness_checks, ng_await, pc, now, last,
                   describes, k8sVars, result, raised>>

\* ------------------------------------------------- _wait_for_asg_ready
\* if pulumi.runtime.is_dry_run(): return the zero-valued dict; otherwise
\* create the client, set the deadline and enter the loop (the wait is an
\* apply callback: it runs on the event loop, which the synchronous main()
\* holds until it has returned)
StartWait(g) ==
    /\ pc[g] = "start"
    /\ mainPc = "built"
    /\ IF dryRun
       THEN /\ result' = [result EXCEPT ![g] = <<DryRunResult(g)>>]
            /\ pc' = [pc EXCEPT ![g] = "done"]
       ELSE /\ pc' = [pc EXCEPT ![g] = "poll"]
            /\ UNCHANGED result
    /\ UNCHANGED <<configVars, tokenVars, mainVars, now, last, describes, k8sVars, raised>>

\* mutant of Slept: the sleep lasts two poll intervals
Slept_Twice(g) == [now EXCEPT ![g] = now[g] + 2 * poll_interval_seconds(g)]

\* time.sleep(poll_interval_seconds)
Slept(g) == [now EXCEPT ![g] = now[g] + poll_interval_seconds(g)]

\* mutant of DescribeClientError: the ClientError is not caught
DescribeClientError_Surfaced(g) ==
    /\ pc[g] = "poll"
    /\ now[g] < timeout_seconds(g)
    /\ describes' = [describes EXCEPT ![g] = describes[g] + 1]
    /\ last' = [last EXCEPT ![g] = [NoOutcome EXCEPT !.kind = "client_error"]]
    /\ raised' = [raised EXCEPT ![g] =
                    <<[kind |-> "client_error", asg_name |-> g, seconds |-> now[g]]>>]
    /\ pc' = [pc EXCEPT ![g] = "raised"]
    /\ UNCHANGED <<configVars, tokenVars, mainVars, now, k8sVars, result>>

\* an iteration whose describe call raises ClientError: warn, sleep, continue
DescribeClientError(g) ==
    /\ pc[g] = "poll"
    /\ now[g] < deadline(g)
    /\ describes' = [describes EXCEPT ![g] = describes[g] + 1]
    /\ last' = [last EXCEPT ![g] = [NoOutcome EXCEPT !.kind = "client_error"]]
    /\ now' = Slept(g)
    /\ UNCHANGED <<configVars, tokenVars, mainVars, pc, k8sVars, result, raised>>

\* mutant of DescribeOtherError: the exception is handled like a ClientError
DescribeOtherError_Retried(g) ==
    /\ pc[g] = "poll"
    /\ now[g] < deadline(g)
    /\ describes' = [describes EXCEPT ![g] = describes[g] + 1]
    /\ last' = [last EXCEPT ![g] = [NoOutcome EXCEPT !.kind = "other_error"]]
    /\ now' = Slept(g)
    /\ UNCHANGED <<configVars, tokenVars, mainVars, pc, k8sVars, result, raised>>

\* an iteration whose describe call raises an exception that is no ClientError:
\* no except clause matches, the exception leaves _wait_for_asg_ready
DescribeOtherError(g) ==
    /\ pc[g] = "poll"
    /\ now[g] < deadline(g)
    /\ describes' = [describes EXCEPT ![g] = describes[g] + 1]
    /\ last' = [last EXCEPT ![g] = [NoOutcome EXCEPT !.kind = "other_error"]]
    /\ raised' = [raised EXCEPT ![g] =
                    <<[kind |-> "other", asg_name |-> g, seconds |-> now[g]]>>]
    /\ pc' = [pc EXCEPT ![g] = "raised"]
    /\ UNCHANGED <<configVars, tokenVars, mainVars, now, k8sVars, result>>

\* an iteration whose response has no AutoScalingGroups: warn, sleep, continue
DescribeEmpty(g) ==
    /\ pc[g] = "poll"
    /\ now[g] < deadline(g)
    /\ describes' = [describes EXCEPT ![g] = describes[g] + 1]
    /\ last' = [last EXCEPT ![g] = [NoOutcome EXCEPT !.kind = "empty"]]
    /\ now' = Slept(g)
    /\ UNCHANGED <<configVars, tokenVars, mainVars, pc, k8sVars, result, raised>>

\* mutant of write_ca_file: every call writes the same path
write_ca_file_Fixed(existing) == 1

\* tempfile.NamedTemporaryFile(delete=False): a name no existing file has
\* (the names are interchangeable: the least free one stands for any of them)
write_ca_file(existing) == CHOOSE f \in FileNames \ existing :
                              \A h \in FileNames \ existing : f <= h

\* finally: if os.path.exists(ca_file_path): os.remove(ca_file_path)
RemoveCaFile(existing, path) == existing \ Range(path)

\* the finally clause: os.remove deletes the file at path, or raises an
\* OSError that is swallowed and leaves the file where it is
Finally(existing, path) ==
    \E removed \in BOOLEAN :
        files' = IF removed THEN RemoveCaFile(existing, path) ELSE existing

\* the healthy branch of an iteration when the Kubernetes check applies:
\* _wait_for_kubernetes_nodes_ready sets its deadline, writes the CA file and
\* imports the client.  tmp.write may fail after NamedTemporaryFile created
\* the file: the exception leaves before the try statement is entered.  An
\* ImportError ends the call inside the try statement (finally).  Either
\* exception is caught by the caller, which builds the failed details and
\* returns its dict.
EnterKubernetesWait(g, desired_capacity, healthy) ==
    \E outcome \in {"write_failed", "import_failed", "entered"} :
        LET f == write_ca_file(files)
            failed == <<ReadinessResult(g, desired_capacity, healthy,
                            <<FailedDetails(g, desired_capacity)>>)>>
        IN
        /\ \/ /\ outcome = "entered"
              /\ ca_file_path' = [ca_file_path EXCEPT ![g] = <<f>>]
              /\ kdeadline' = [kdeadline EXCEPT ![g] =
                                 now[g] + kubernetes_timeout(timeout_seconds(g))]
              /\ files' = files \cup {f}
              /\ pc' = [pc EXCEPT ![g] = "k8s"]
              /\ UNCHANGED <<last_error, k8s_exc, result>>
           \/ /\ outcome = "import_failed"
              /\ ca_file_path' = [ca_file_path EXCEPT ![g] = <<f>>]
              /\ Finally(files \cup {f}, <<f>>)
              /\ UNCHANGED <<kdeadline, last_error>>
              /\ k8s_exc' = [k8s_exc EXCEPT ![g] =
                               [kind |-> "import", last_error |-> "none"]]
              /\ result' = [result EXCEPT ![g] = failed]
              /\ pc' = [pc EXCEPT ![g] = "done"]
           \/ /\ outcome = "write_failed"
              /\ files' = files \cup {f}
              /\ UNCHANGED <<ca_file_path, kdeadline, last_error>>
              /\ k8s_exc' = [k8s_exc EXCEPT ![g] =
                               [kind |-> "write", last_error |-> "none"]]
              /\ result' = [result EXCEPT ![g] = failed]
              /\ pc' = [pc EXCEPT ![g] = "done"]
        /\ UNCHANGED <<now, mints, lists, last_list>>

\* an iteration whose response holds the group; of the response's Instances
\* only their healthy count is kept
DescribeGroup(g) ==
    /\ pc[g] = "poll"
    /\ now[g] < deadline(g)
    /\ \E desired_capacity \in 0..MaxDesired,
          healthy \in {healthy_instances(instances) : instances \in InstanceLists} :
        /\ describes' = [describes EXCEPT ![g] = describes[g] + 1]
        /\ last' = [last EXCEPT ![g] =
                     [kind |-> "group", desired_capacity |-> desired_capacity,
                      healthy_instances |-> healthy]]
        /\ IF IsHealthy(desired_capacity, healthy)
           THEN IF KubernetesCheckApplies(desired_capacity, context)
                THEN EnterKubernetesWait(g, desired_capacity, healthy)
                ELSE /\ result' = [result EXCEPT ![g] =
                                     <<ReadinessResult(g, desired_capacity, healthy, <<>>)>>]
                     /\ pc' = [pc EXCEPT ![g] = "done"]
                     /\ UNCHANGED <<now, k8sVars>>
           ELSE /\ now' = Slept(g)
                /\ UNCHANGED <<pc, k8sVars, result>>
    /\ UNCHANGED <<configVars, tokenVars, mainVars, raised>>

\* mutant of OuterTimedOut: with the deadline reached the loop raises nothing
OuterTimedOut_Hangs(g) ==
    /\ pc[g] = "poll"
    /\ ~(now[g] < deadline(g))
    /\ UNCHANGED vars

\* the loop ends without a return: raise Exception("Timed out after ...")
OuterTimedOut(g) ==
    /\ pc[g] = "poll"
    /\ ~(now[g] < deadline(g))
    /\ raised' = [raised EXCEPT ![g] = <<OuterTimeout(g, timeout_seconds(g))>>]
    /\ pc' = [pc EXCEPT ![g] = "raised"]
    /\ UNCHANGED <<configVars, tokenVars, mainVars, now, last, describes, k8sVars, result>>

\* ------------------------------------ _wait_for_kubernetes_nodes_ready
\* the locals of the poll that entered the Kubernetes wait
desired_of(g) == last[g].desired_capacity

\* mutant of healthy_of: the count is replaced after the Kubernetes wait
healthy_of_AsDesired(g) == last[g].desired_capacity

healthy_of(g) == last[g].healthy_instances

\* mutant of KubernetesWaitFails: no except clause, the exception leaves
\* _wait_for_asg_ready and no dict is returned
KubernetesWaitFails_Propagated(g, exc) ==
    /\ k8s_exc' = [k8s_exc EXCEPT ![g] = exc]
    /\ files' = files \ {ca_file_path[g][i] : i \in 1..Len(ca_file_path[g])}
    /\ kdeadline' = [kdeadline EXCEPT ![g] = 0]
    /\ last_error' = [last_error EXCEPT ![g] = "none"]
    /\ UNCHANGED last_list
    /\ result' = result
    /\ pc' = [pc EXCEPT ![g] = "raised"]

\* an exception leaves _wait_for_kubernetes_nodes_ready: the finally clause
\* removes the CA file, the except clause of _wait_for_asg_ready builds the
\* failed details, and _wait_for_asg_ready returns its dict (the locals
\* deadline and last_error of the ended call are gone: 0 and "none";
\* last_list keeps what the latest list-nodes call had reported)
KubernetesWaitFails(g, exc) ==
    /\ k8s_exc' = [k8s_exc EXCEPT ![g] = exc]
    /\ Finally(files, ca_file_path[g])
    /\ kdeadline' = [kdeadline EXCEPT ![g] = 0]
    /\ last_error' = [last_error EXCEPT ![g] = "none"]
    /\ UNCHANGED last_list
    /\ result' = [result EXCEPT ![g] =
                    <<ReadinessResult(g, desired_of(g), healthy_of(g),
                        <<FailedDetails(g, desired_of(g))>>)>>]
    /\ pc' = [pc EXCEPT ![g] = "done"]

\* mutant of MintWithoutCredentials: the missing credentials are treated as
\* one more per-call error (last_error, sleep, retry)
MintWithoutCredentials_Retried(g) ==
    /\ pc[g] = "k8s"
    /\ now[g] < kdeadline[g]
    /\ mints' = [mints EXCEPT ![g] = mints[g] + 1]
    /\ last_error' = [last_error EXCEPT ![g] = "connection error"]
    /\ k8s_exc' = [k8s_exc EXCEPT ![g] = [kind |-> "credentials", last_error |-> "none"]]
    /\ now' = [now EXCEPT ![g] = now[g] + poll_interval_seconds(g)]
    /\ UNCHANGED <<configVars, tokenVars, mainVars, pc, last, describes, lists, kdeadline,
                   last_list, ca_file_path, files, result, raised>>

\* an iteration in which session.get_credentials() is None:
\* _generate_bearer_token raises before any list-nodes call
MintWithoutCredentials(g) ==
    /\ pc[g] = "k8s"
    /\ now[g] < kdeadline[g]
    /\ mints' = [mints EXCEPT ![g] = mints[g] + 1]
    /\ KubernetesWaitFails(g, [kind |-> "credentials", last_error |-> "none"])
    /\ UNCHANGED <<configVars, tokenVars, mainVars, now, last, describes, lists,
                   ca_file_path, raised>>

\* mutant of ListApiException: the ApiException is not caught in the loop
ListApiException_Fatal(g) ==
    /\ pc[g] = "k8s"
    /\ now[g] < kdeadline[g]
    /\ mints' = [mints EXCEPT ![g] = mints[g] + 1]
    /\ lists' = [lists EXCEPT ![g] = lists[g] + 1]
    /\ last_list' = [last_list EXCEPT ![g] = [NoList EXCEPT !.kind = "api_exception"]]
    /\ last_error' = [last_error EXCEPT ![g] = "HTTP 500"]
    /\ k8s_exc' = [k8s_exc EXCEPT ![g] = [kind |-> "api", last_error |-> "HTTP 500"]]
    /\ files' = RemoveCaFile(files, ca_file_path[g])
    /\ result' = [result EXCEPT ![g] =
                    <<ReadinessResult(g, desired_of(g), healthy_of(g),
                        <<FailedDetails(g, desired_of(g))>>)>>]
    /\ pc' = [pc EXCEPT ![g] = "done"]
    /\ UNCHANGED <<configVars, tokenVars, mainVars, now, last, describes, kdeadline,
                   ca_file_path, raised>>

\* an iteration whose list_node call raises ApiException: last_error, sleep
ListApiException(g) ==
    /\ pc[g] = "k8s"
    /\ now[g] < kdeadline[g]
    /\ mints' = [mints EXCEPT ![g] = mints[g] + 1]
    /\ lists' = [lists EXCEPT ![g] = lists[g] + 1]
    /\ last_error' = [last_error EXCEPT ![g] = "HTTP 500"]
    /\ last_list' = [last_list EXCEPT ![g] = [NoList EXCEPT !.kind = "api_exception"]]
    /\ now' = Slept(g)
    /\ UNCHANGED <<configVars, tokenVars, mainVars, pc, last, describes, kdeadline,
                   ca_file_path, files, k8s_exc, result, raised>>

\* the tokens _generate_bearer_token returned: the call that found no
\* credentials raised and returned none
tokens_minted(g) == mints[g] - (IF k8s_exc[g].kind = "credentials" THEN 1 ELSE 0)

\* mutant of ListOtherException: the call uses the token of an earlier iteration
ListOtherException_TokenReused(g) ==
    /\ pc[g] = "k8s"
    /\ now[g] < kdeadline[g]
    /\ mints' = [mints EXCEPT ![g] = IF lists[g] > 0 THEN mints[g] ELSE mints[g] + 1]
    /\ lists' = [lists EXCEPT ![g] = lists[g] + 1]
    /\ last_error' = [last_error EXCEPT ![g] = "connection error"]
    /\ last_list' = [last_list EXCEPT ![g] = [NoList EXCEPT !.kind = "other_exception"]]
    /\ now' = Slept(g)
    /\ UNCHANGED <<configVars, tokenVars, mainVars, pc, last, describes, kdeadline,
                   ca_file_path, files, k8s_exc, result, raised>>

\* an iteration whose list_node call raises another exception: last_error, sleep
ListOtherException(g) ==
    /\ pc[g] = "k8s"
    /\ now[g] < kdeadline[g]
    /\ mints' = [mints EXCEPT ![g] = mints[g] + 1]
    /\ lists' = [lists EXCEPT ![g] = lists[g] + 1]
    /\ last_error' = [last_error EXCEPT ![g] = "connection error"]
    /\ last_list' = [last_list EXCEPT ![g] = [NoList EXCEPT !.kind = "other_exception"]]
    /\ now' = Slept(g)
    /\ UNCHANGED <<configVars, tokenVars, mainVars, pc, last, describes, kdeadline,
                   ca_file_path, files, k8s_exc, result, raised>>

\* an iteration whose list_node call returns items
ListNodes(g) ==
    /\ pc[g] = "k8s"
    /\ now[g] < kdeadline[g]
    /\ mints' = [mints EXCEPT ![g] = mints[g] + 1]
    /\ lists' = [lists EXCEPT ![g] = lists[g] + 1]
    /\ \E counted \in {ready_nodes(items) : items \in NodeLists} :
        /\ last_list' = [last_list EXCEPT ![g] =
                           [kind |-> "items", ready_nodes |-> counted]]
        /\ IF NodesReady(counted, desired_of(g))
           THEN /\ Finally(files, ca_file_path[g])
                /\ result' = [result EXCEPT ![g] =
                                <<ReadinessResult(g, desired_of(g), healthy_of(g),
                                    <<ReadyDetails(g, counted, desired_of(g))>>)>>]
                /\ pc' = [pc EXCEPT ![g] = "done"]
                /\ kdeadline' = [kdeadline EXCEPT ![g] = 0]
                /\ last_error' = [last_error EXCEPT ![g] = "none"]
                /\ UNCHANGED now
           ELSE /\ now' = Slept(g)
                /\ UNCHANGED <<pc, files, result, kdeadline, last_error>>
    /\ UNCHANGED <<configVars, tokenVars, mainVars, last, describes, ca_file_path, k8s_exc, raised>>

\* the loop ends without a return: raise Exception("Timed out after
\* {kubernetes_timeout}s ... Last seen error: {last_error or 'none'}")
KubernetesTimedOut(g) ==
    /\ pc[g] = "k8s"
    /\ ~(now[g] < kdeadline[g])
    /\ KubernetesWaitFails(g, [kind |-> "timeout", last_error |-> last_error[g]])
    /\ UNCHANGED <<configVars, tokenVars, mainVars, now, last, describes, mints, lists,
                   ca_file_path, raised>>

\* ----------------------------------------------------------- specification
Next ==
    \/ create_node_groups
    \/ await_node_groups_ready
    \/ log_and_return
    \/ bootstrap_flux
    \/ StartFlux
    \/ \E g \in Groups : StartWait(g)
    \/ \E g \in Groups : DescribeClientError(g)
    \/ \E g \in Groups : DescribeOtherError(g)
    \/ \E g \in Groups : DescribeEmpty(g)
    \/ \E g \in Groups : DescribeGroup(g)
    \/ \E g \in Groups : OuterTimedOut(g)
    \/ \E g \in Groups : MintWithoutCredentials(g)
    \/ \E g \in Groups : ListApiException(g)
    \/ \E g \in Groups : ListOtherException(g)
    \/ \E g \in Groups : ListNodes(g)
    \/ \E g \in Groups : KubernetesTimedOut(g)

Spec == Init /\ [][Next]_vars

\* main() is synchronous: once started it runs to its end
MainNext ==
    \/ create_node_groups
    \/ await_node_groups_ready
    \/ bootstrap_flux

\* the steps of g's wait: a blocking loop that suspends only in time.sleep,
\* so while a step is possible the wait takes one (every API call returns or
\* raises, every sleep ends)
WaitNext(g) ==
    \/ StartWait(g)
    \/ DescribeClientError(g)
    \/ DescribeOtherError(g)
    \/ DescribeEmpty(g)
    \/ DescribeGroup(g)
    \/ OuterTimedOut(g)
    \/ MintWithoutCredentials(g)
    \/ ListApiException(g)
    \/ ListOtherException(g)
    \/ ListNodes(g)
    \/ KubernetesTimedOut(g)

Fairness == WF_vars(MainNext) /\ \A g \in Groups : WF_vars(WaitNext(g))

FairSpec == Init /\ [][Next]_vars /\ Fairness

\* ------------------------------------------ await_node_groups_ready alone
\* await_node_groups_ready(node_groups_config, readiness_checks) is about to
\* be called with a map that holds a controller for some of the opted-in
\* groups only (it is a public function: the map is its caller's)
CalledWithMap ==
    /\ dryRun \in BOOLEAN
    /\ enable_flux \in BOOLEAN
    /\ node_groups_config \in NodeGroupsConfigs
    /\ context \in Contexts
    /\ mainPc = "await"
    /\ readiness_checks \in SUBSET {g \in Groups : node_groups_config[g].await}
    /\ pc = [g \in Groups |-> IF g \in readiness_checks THEN "start" ELSE "absent"]
    /\ NothingRun
    /\ signed_url = <<>>
    /\ token = NoToken

\* the program from its start, or from a call of the aggregator with any map
AggregatorInit == Init \/ CalledWithMap

AggregatorSpec == AggregatorInit /\ [][Next]_vars

\* ------------------------------------------------- _generate_bearer_token
\* the characters a presigned URL is made of here, and their UTF-8 bytes
UrlChars == {"h", "?", "~", "="}
SignedUrls == SeqsUpTo(UrlChars, MaxUrlLen)

Utf8 == [c \in UrlChars |->
            CASE c = "h" -> 104 [] c = "?" -> 63 [] c = "~" -> 126 [] c = "=" -> 61]

\* signed_url.encode("utf-8")
encode_utf8(url) == [i \in 1..Len(url) |-> Utf8[url[i]]]

\* the alphabet of base64.urlsafe_b64encode: value v is UrlSafeAlphabet[v + 1]
UrlSafeAlphabet ==
    <<"A", "B", "C", "D", "E", "F", "G", "H", "I", "J", "K", "L", "M",
      "N", "O", "P", "Q", "R", "S", "T", "U", "V", "W", "X", "Y", "Z",
      "a", "b", "c", "d", "e", "f", "g", "h", "i", "j", "k", "l", "m",
      "n", "o", "p", "q", "r", "s", "t", "u", "v", "w", "x", "y", "z",
      "0", "1", "2", "3", "4", "5", "6", "7", "8", "9", "-", "_">>

\* base64.urlsafe_b64encode(bytes): 3 bytes give 4 characters; a last group of
\* 1 or 2 bytes gives 2 or 3 characters and is padded with "=" to 4
RECURSIVE urlsafe_b64encode(_)
urlsafe_b64encode(bytes) ==
    LET A(v) == UrlSafeAlphabet[v + 1] IN
    IF Len(bytes) = 0 THEN <<>>
    ELSE IF Len(bytes) = 1
    THEN <<A(bytes[1] \div 4), A((bytes[1] % 4) * 16), "=", "=">>
    ELSE IF Len(bytes) = 2
    THEN <<A(bytes[1] \div 4), A((bytes[1] % 4) * 16 + bytes[2] \div 16),
           A((bytes[2] % 16) * 4), "=">>
    ELSE <<A(bytes[1] \div 4), A((bytes[1] % 4) * 16 + bytes[2] \div 16),
           A((bytes[2] % 16) * 4 + bytes[3] \div 64), A(bytes[3] % 64)>>
         \o urlsafe_b64encode(SubSeq(bytes, 4, Len(bytes)))

\* str.rstrip(c)
RECURSIVE rstrip(_, _)
rstrip(s, c) ==
    IF s # <<>> /\ s[Len(s)] = c THEN rstrip(SubSeq(s, 1, Len(s) - 1), c) ELSE s

TokenPrefix == <<"k", "8", "s", "-", "a", "w", "s", "-", "v", "1", ".">>

\* mutant of bearer_token: the padding is not stripped
bearer_token_Padded(url) == TokenPrefix \o urlsafe_b64encode(encode_utf8(url))

\* "k8s-aws-v1." + urlsafe_b64encode(signed_url.encode("utf-8"))
\*                    .decode("utf-8").rstrip("=")
bearer_token(url) == TokenPrefix \o rstrip(urlsafe_b64encode(encode_utf8(url)), "=")

\* a call of _generate_bearer_token: without credentials it raises, otherwise
\* it returns the token of the presigned URL
generate_bearer_token ==
    /\ token.status = "none"
    /\ \E credentials \in BOOLEAN :
        token' = IF credentials
                 THEN [status |-> "returned", value |-> bearer_token(signed_url)]
                 ELSE [status |-> "raised", value |-> <<>>]
    /\ UNCHANGED <<configVars, mainVars, pc, now, last, describes, k8sVars, result,
                   raised, signed_url>>

\* the calls of _generate_bearer_token over the presigned URLs
TokenInit ==
    /\ dryRun = FALSE
    /\ enable_flux = FALSE
    /\ node_groups_config = [g \in Groups |-> NoAwaitConfig]
    /\ context = ContextFields
    /\ NotStarted
    /\ signed_url \in SignedUrls
    /\ token = NoToken

TokenNext == generate_bearer_token

TokenSpec == TokenInit /\ [][TokenNext]_vars

\* ------------------------------------------------------------ properties
Config(g) == node_groups_config[g]

\* the step issues a describe call for g
Described(g) == describes'[g] = describes[g] + 1

\* the step is a step of g's wait
WaitStep(g) ==
    <<pc[g], now[g], last[g], describes[g], mints[g], lists[g], result[g], raised[g]>>'
        # <<pc[g], now[g], last[g], describes[g], mints[g], lists[g], result[g], raised[g]>>

\* the kubernetes details of g's result (g has returned outside dry-run with
\* details)
DetailsOf(g) == result[g][1].kubernetes[1]

\* C1: a poll that returned the group leaves the polling loop if and only if
\* desired_capacity = 0 or healthy_instances >= desired_capacity; a poll that
\* does not meet this returns nothing, sleeps poll_interval_seconds and polls
\* again; and a result outside dry-run always stems from a poll that meets it.
C1_HealthyIffThreshold ==
    [][\A g \in Groups :
        /\ (Described(g) /\ last'[g].kind = "group") =>
             LET d == last'[g].desired_capacity
                 h == last'[g].healthy_instances
             IN /\ (pc'[g] \in {"k8s", "done"}) <=> (d = 0 \/ h >= d)
                /\ ~(d = 0 \/ h >= d) =>
                     /\ pc'[g] = "poll"
                     /\ result'[g] = <<>>
                     /\ raised'[g] = <<>>
                     /\ now'[g] = now[g] + Config(g).poll_interval_seconds
        /\ (~dryRun /\ result'[g] # <<>>) =>
             /\ last'[g].kind = "group"
             /\ \/ last'[g].desired_capacity = 0
                \/ last'[g].healthy_instances >= last'[g].desired_capacity
      ]_vars

\* a poll saw 1 healthy instance of 2 desired: the wait sleeps and is back at
\* the head of the loop
C1_Witness ==
    \E g \in Groups :
        /\ pc[g] = "poll"
        /\ last[g] = [kind |-> "group", desired_capacity |-> 2, healthy_instances |-> 1]
        /\ now[g] = Config(g).poll_interval_seconds
        /\ result[g] = <<>>

\* C2: once a poll observed healthy_instances >= desired_capacity, the polling
\* loop is left at that poll and no further describe call is issued.
C2_NoPollAfterThreshold ==
    [][\A g \in Groups :
        LET met == /\ last[g].kind = "group"
                   /\ last[g].healthy_instances >= last[g].desired_capacity
            metAfter == /\ last'[g].kind = "group"
                        /\ last'[g].healthy_instances >= last'[g].desired_capacity
        IN /\ metAfter => pc'[g] \in {"k8s", "done"}
           /\ met => (describes'[g] = describes[g] /\ last'[g] = last[g])
      ]_vars

\* desired capacity 2, the group was not healthy on poll 1 and 2 instances
\* were healthy on poll 2: a result after exactly 2 describe calls
C2_Witness ==
    \E g \in Groups :
        /\ describes[g] = 2
        /\ now[g] = Config(g).poll_interval_seconds
        /\ result[g] = <<[asg_name |-> g, desired_capacity |-> 2,
                          healthy_instances |-> 2, kubernetes |-> <<>>]>>

\* C3: a poll that reports desired_capacity = 0 returns at once, whatever the
\* instances are, with no kubernetes details, and the Kubernetes wait is not
\* entered (no CA file, no token, no list-nodes call); with timeout_seconds > 0
\* and no failing describe this is the first poll.
C3_ZeroCapacityReady ==
    [][\A g \in Groups :
        (Described(g) /\ last'[g].kind = "group" /\ last'[g].desired_capacity = 0) =>
            /\ pc'[g] = "done"
            /\ result'[g] = <<[asg_name |-> g, desired_capacity |-> 0,
                               healthy_instances |-> last'[g].healthy_instances,
                               kubernetes |-> <<>>]>>
            /\ raised'[g] = <<>>
            /\ now'[g] = now[g]
            /\ ca_file_path'[g] = <<>>
            /\ mints'[g] = 0
            /\ lists'[g] = 0
            /\ k8s_exc'[g].kind = "none"
      ]_vars

\* full cluster context, the first poll reports desired capacity 0 and one
\* healthy instance: returned on that poll
C3_Witness ==
    \E g \in Groups :
        /\ context = ContextFields
        /\ Config(g).timeout_seconds > 0
        /\ describes[g] = 1
        /\ now[g] = 0
        /\ result[g] = <<[asg_name |-> g, desired_capacity |-> 0,
                          healthy_instances |-> 1, kubernetes |-> <<>>]>>

\* C4 as stated: the timeout error names the group and states the elapsed
\* seconds, and no result is produced.
C4_Original ==
    \A g \in Groups :
        (raised[g] # <<>> /\ raised[g][1].kind = "timeout") =>
            /\ result[g] = <<>>
            /\ raised[g][1].asg_name = g
            /\ raised[g][1].seconds = now[g]

\* C4 (amended): at the head of the polling loop with the deadline reached the
\* wait polls no more: its next step raises the timeout error, which names the
\* group and states the configured timeout_seconds, and no result is produced;
\* the error is raised only with the deadline reached.
C4_TimeoutNamesGroupAndBudget ==
    [][\A g \in Groups :
        /\ (pc[g] = "poll" /\ now[g] >= Config(g).timeout_seconds /\ WaitStep(g)) =>
             /\ pc'[g] = "raised"
             /\ describes'[g] = describes[g]
             /\ result'[g] = <<>>
             /\ raised'[g] = <<[kind |-> "timeout", asg_name |-> g,
                                seconds |-> Config(g).timeout_seconds]>>
        /\ (raised'[g] # <<>> /\ raised'[g][1].kind = "timeout") =>
             /\ result'[g] = <<>>
             /\ now'[g] >= Config(g).timeout_seconds
             /\ raised'[g][1].asg_name = g
             /\ raised'[g][1].seconds = Config(g).timeout_seconds
      ]_vars

\* the timeout was raised 450 s after the start of a wait of timeout 400 s
C4_Witness ==
    \E g \in Groups :
        /\ raised[g] = <<[kind |-> "timeout", asg_name |-> g, seconds |-> 400]>>
        /\ now[g] = 450
        /\ describes[g] = 6
        /\ result[g] = <<>>

\* the latest describe call of g failed with ClientError or found no group
DescribeFailed(g) == last[g].kind \in {"client_error", "empty"}

\* C5: a describe call that raises ClientError or returns no group is not
\* surfaced: the wait returns nothing, raises nothing, sleeps
\* poll_interval_seconds and is back at the head of the loop, where before the
\* deadline it polls again; after such a failure the only error the wait can
\* raise is the timeout, with the deadline reached.
C5_DescribeFailureRetried ==
    [][\A g \in Groups :
        /\ (Described(g) /\ DescribeFailed(g)') =>
             /\ pc'[g] = "poll"
             /\ result'[g] = <<>>
             /\ raised'[g] = <<>>
             /\ now'[g] = now[g] + Config(g).poll_interval_seconds
        /\ (DescribeFailed(g) /\ WaitStep(g)) =>
             /\ pc[g] = "poll"
             /\ IF now[g] < Config(g).timeout_seconds
                THEN Described(g)
                ELSE /\ raised'[g] # <<>>
                     /\ raised'[g][1].kind = "timeout"
        /\ (DescribeFailed(g)' /\ raised'[g] # <<>>) =>
             /\ raised'[g][1].kind = "timeout"
             /\ now'[g] >= Config(g).timeout_seconds
      ]_vars

\* the second describe call found no group: nothing is returned or raised,
\* the wait has slept and is back at the head of the loop before its deadline
C5_Witness ==
    \E g \in Groups :
        /\ pc[g] = "poll"
        /\ last[g].kind = "empty"
        /\ describes[g] = 2
        /\ now[g] = 2 * Config(g).poll_interval_seconds
        /\ now[g] < Config(g).timeout_seconds
        /\ result[g] = <<>>
        /\ raised[g] = <<>>

\* C6: when a poll meets the instance threshold, the Kubernetes wait is called
\* (it writes its CA file) if and only if desired_capacity > 0 and
\* cluster_name, cluster_endpoint, cluster_ca_data and node_group_label are all
\* present; otherwise the wait returns at once with kubernetes = None, raises
\* nothing and no token is minted and no list-nodes call issued.
C6_KubernetesCheckIffContext ==
    [][\A g \in Groups :
        /\ (/\ Described(g)
            /\ last'[g].kind = "group"
            /\ \/ last'[g].desired_capacity = 0
               \/ last'[g].healthy_instances >= last'[g].desired_capacity) =>
             LET d == last'[g].desired_capacity
                 applies == d > 0 /\ context = ContextFields
             IN /\ applies <=> (ca_file_path'[g] # <<>> \/ k8s_exc'[g].kind = "write")
                /\ applies <=> (pc'[g] = "k8s" \/ k8s_exc'[g].kind # "none")
                /\ ~applies =>
                     /\ pc'[g] = "done"
                     /\ result'[g] = <<[asg_name |-> g, desired_capacity |-> d,
                                        healthy_instances |-> last'[g].healthy_instances,
                                        kubernetes |-> <<>>]>>
                     /\ raised'[g] = <<>>
                     /\ now'[g] = now[g]
        /\ (mints'[g] > 0 \/ lists'[g] > 0 \/ pc'[g] = "k8s") =>
             /\ context = ContextFields
             /\ last'[g].kind = "group"
             /\ last'[g].desired_capacity > 0
      ]_vars

\* cluster_ca_data is missing and the poll finds 2 of 2 instances healthy: a
\* result without kubernetes details, no token, no list-nodes call
C6_Witness ==
    \E g \in Groups :
        /\ context = ContextFields \ {"cluster_ca_data"}
        /\ result[g] = <<[asg_name |-> g, desired_capacity |-> 2,
                          healthy_instances |-> 2, kubernetes |-> <<>>]>>
        /\ mints[g] = 0
        /\ lists[g] = 0
        /\ ca_file_path[g] = <<>>

\* C7: a Kubernetes wait whose deadline is reached without enough Ready nodes
\* ends in its timeout, which does not leave _wait_for_asg_ready: the wait
\* returns its dict with the desired_capacity and healthy_instances of the
\* instance poll and kubernetes.status = "failed", raises nothing, and issues
\* no describe call afterwards.
C7_InnerTimeoutDowngraded ==
    [][\A g \in Groups :
        /\ (pc[g] = "k8s" /\ now[g] >= kdeadline[g] /\ WaitStep(g)) =>
             /\ k8s_exc'[g].kind = "timeout"
             /\ mints'[g] = mints[g]
             /\ lists'[g] = lists[g]
        /\ k8s_exc'[g].kind = "timeout" =>
             /\ pc'[g] = "done"
             /\ raised'[g] = <<>>
             /\ result'[g] # <<>>
             /\ result'[g][1].asg_name = g
             /\ result'[g][1].desired_capacity = last'[g].desired_capacity
             /\ result'[g][1].healthy_instances = last'[g].healthy_instances
             /\ result'[g][1].kubernetes # <<>>
             /\ result'[g][1].kubernetes[1].status = "failed"
             /\ describes'[g] = describes[g]
             /\ last'[g] = last[g]
      ]_vars

\* 2 of 2 instances were healthy on the second poll, the Kubernetes wait ran
\* 3 list-nodes calls in its 30 s and timed out: a result with status failed
C7_Witness ==
    \E g \in Groups :
        /\ k8s_exc[g].kind = "timeout"
        /\ describes[g] = 2
        /\ lists[g] = 3
        /\ now[g] = 40
        /\ result[g] # <<>>
        /\ result[g][1].desired_capacity = 2
        /\ result[g][1].healthy_instances = 2
        /\ DetailsOf(g).status = "failed"

\* C8: when no credentials are found as a token is minted, the Kubernetes wait
\* ends in that iteration, without a list-nodes call and without another
\* attempt to mint; _wait_for_asg_ready returns its dict with
\* kubernetes.status = "failed" and raises nothing.
C8_MissingCredentialsDowngraded ==
    [][\A g \in Groups :
        /\ (k8s_exc[g].kind # "credentials" /\ k8s_exc'[g].kind = "credentials") =>
             /\ mints'[g] = mints[g] + 1
             /\ lists'[g] = lists[g]
             /\ now'[g] = now[g]
        /\ k8s_exc'[g].kind = "credentials" =>
             /\ pc'[g] = "done"
             /\ raised'[g] = <<>>
             /\ result'[g] # <<>>
             /\ result'[g][1].desired_capacity = last'[g].desired_capacity
             /\ result'[g][1].healthy_instances = last'[g].healthy_instances
             /\ result'[g][1].kubernetes # <<>>
             /\ result'[g][1].kubernetes[1].status = "failed"
        /\ k8s_exc[g].kind = "credentials" =>
             /\ mints'[g] = mints[g]
             /\ lists'[g] = lists[g]
             /\ describes'[g] = describes[g]
      ]_vars

\* one list-nodes call was made, then the credentials were gone at the second
\* minting: a result with status failed after 2 mintings and 1 list-nodes call
C8_Witness ==
    \E g \in Groups :
        /\ k8s_exc[g].kind = "credentials"
        /\ mints[g] = 2
        /\ lists[g] = 1
        /\ result[g] # <<>>
        /\ DetailsOf(g).status = "failed"
        /\ raised[g] = <<>>

\* C9: in dry-run no wait issues a describe call, mints a token, lists nodes,
\* writes a CA file or sleeps; a wait that ran returned the zero-valued dict;
\* and await_node_groups_ready returned true at its call, never a pending
\* aggregate.
C9_DryRunNoCalls ==
    dryRun =>
        /\ files = {}
        /\ ng_await # "pending"
        /\ mainPc = "built" => ng_await = "true"
        /\ \A g \in Groups :
            /\ describes[g] = 0
            /\ mints[g] = 0
            /\ lists[g] = 0
            /\ now[g] = 0
            /\ ca_file_path[g] = <<>>
            /\ raised[g] = <<>>
            /\ pc[g] \in {"absent", "start", "done"}
            /\ pc[g] = "done" <=> result[g] # <<>>
            /\ result[g] # <<>> =>
                 result[g] = <<[asg_name |-> g, desired_capacity |-> 0,
                                healthy_instances |-> 0]>>

\* dry-run with both groups opted in: the aggregate is true, one wait has
\* returned the zero-valued dict and the other has not run yet
C9_Witness ==
    /\ dryRun
    /\ ng_await = "true"
    /\ \A g \in Groups : Config(g).await
    /\ \E g, h \in Groups :
        /\ result[g] = <<[asg_name |-> g, desired_capacity |-> 0, healthy_instances |-> 0]>>
        /\ pc[h] = "start"

\* C10 as stated: the aggregate is true only when the ready signal of every
\* opted-in controller has resolved.
C10_Original ==
    ng_await = "true" => \A g \in Groups : Config(g).await => result[g] # <<>>

\* C10 (amended): outside dry-run the aggregate is true only when the wait of
\* every opted-in group has returned its result; in every mode there is no
\* state in which the aggregate is true while an opted-in group's wait is
\* polling or has raised.
C10_AggregateAfterAllReady ==
    ng_await = "true" =>
        \A g \in Groups : Config(g).await =>
            /\ ~dryRun => (result[g] # <<>> /\ pc[g] = "done")
            /\ pc[g] \notin {"poll", "k8s", "raised"}
            /\ raised[g] = <<>>

\* both groups opted in, outside dry-run; one returned on its second poll and
\* after a Kubernetes wait, the other on its first poll, and the aggregate
\* resolved after both
C10_Witness ==
    /\ ~dryRun
    /\ ng_await = "true"
    /\ \A g \in Groups : Config(g).await /\ result[g] # <<>> /\ pc[g] = "done"
    /\ \E g \in Groups : describes[g] = 2 /\ lists[g] > 0
    /\ \E g \in Groups : describes[g] = 1

\* C11: when no node group has opted in, await_node_groups_ready returns true
\* at once, no controller is created for any group, and no wait is started:
\* no describe call, no token and no list-nodes call is issued for any group.
C11_NoOptInNoWait ==
    (\A g \in Groups : ~Config(g).await) =>
        /\ ng_await \in {"uncalled", "true"}
        /\ mainPc = "built" => ng_await = "true"
        /\ readiness_checks = {}
        /\ \A g \in Groups :
            /\ pc[g] = "absent"
            /\ describes[g] = 0
            /\ mints[g] = 0
            /\ lists[g] = 0
            /\ result[g] = <<>>
            /\ raised[g] = <<>>

\* outside dry-run no group has opted in and the aggregator has returned true
C11_Witness ==
    /\ ~dryRun
    /\ \A g \in Groups : ~Config(g).await
    /\ mainPc = "built"
    /\ ng_await = "true"

\* C12: with one group opted in and the other not, the group that has not
\* opted in has no controller and is never polled, and the aggregate follows
\* the opted-in group alone: outside dry-run it is true only after that
\* group's wait returned, and once that wait has returned the pending
\* aggregate can resolve, whatever the other group's instances are.
C12_AggregateFollowsOptedIn ==
    \A a, b \in Groups :
        (Config(a).await /\ ~Config(b).await) =>
            /\ b \notin readiness_checks
            /\ pc[b] = "absent"
            /\ describes[b] = 0 /\ mints[b] = 0 /\ lists[b] = 0
            /\ result[b] = <<>> /\ raised[b] = <<>>
            /\ (~dryRun /\ ng_await = "true") => result[a] # <<>>
            /\ (ng_await = "pending" /\ result[a] # <<>>) => ENABLED log_and_return
            /\ (ng_await = "pending" /\ result[a] = <<>>) => ~ENABLED log_and_return

\* one group opted in and returned after two describe calls, the other never
\* polled, and the aggregate resolved
C12_Witness ==
    \E a, b \in Groups :
        /\ ~dryRun
        /\ Config(a).await /\ ~Config(b).await
        /\ describes[a] = 2 /\ result[a] # <<>>
        /\ describes[b] = 0 /\ pc[b] = "absent"
        /\ ng_await = "true"

C14_ResultMeansReady ==
    /\ \A g \in Groups :
        (result[g] # <<>>) => (raised[g] = <<>> /\ pc[g] = "done")
    /\ (\A g \in Groups : Config(g).await => result[g] # <<>>) =>
        /\ ng_await = "pending" => ENABLED log_and_return
        /\ (flux = "waiting" /\ ng_await = "true") => ENABLED StartFlux

\* the only opted-in group returned a result whose kubernetes details are
\* failed; the aggregate is true and the Flux bootstrap has started
C14_Witness ==
    \E g \in Groups :
        /\ \A h \in Groups : Config(h).await <=> h = g
        /\ result[g] # <<>>
        /\ "kubernetes" \in DOMAIN result[g][1]
        /\ result[g][1].kubernetes # <<>>
        /\ DetailsOf(g).status = "failed"
        /\ ng_await = "true"
        /\ flux = "started"

\* C15 as stated: measured from the start of the wait, the time at which
\* _wait_for_asg_ready returns its result or raises is at most
\* timeout_seconds + poll_interval_seconds, the nested Kubernetes wait included.
C15_Original ==
    \A g \in Groups :
        (result[g] # <<>> \/ raised[g] # <<>>) =>
            now[g] <= Config(g).timeout_seconds + Config(g).poll_interval_seconds

\* C16: the Kubernetes wait's deadline is the time of its start plus
\* min(timeout_seconds, 300) and does not move while the wait runs; a token is
\* minted and a list-nodes call is issued only before that deadline; and with
\* the deadline reached the wait does nothing but fail with its timeout, which
\* carries the last_error of the latest failed call ("none" if none failed).
C16_KubernetesDeadline ==
    [][\A g \in Groups :
        LET cap == IF Config(g).timeout_seconds < 300
                   THEN Config(g).timeout_seconds ELSE 300
        IN /\ (pc[g] # "k8s" /\ pc'[g] = "k8s") => kdeadline'[g] = now[g] + cap
           /\ (pc[g] = "k8s" /\ pc'[g] = "k8s") => kdeadline'[g] = kdeadline[g]
           /\ (mints'[g] # mints[g] \/ lists'[g] # lists[g]) =>
                (pc[g] = "k8s" /\ now[g] < kdeadline[g])
           /\ (pc[g] = "k8s" /\ now[g] >= kdeadline[g] /\ WaitStep(g)) =>
                /\ mints'[g] = mints[g]
                /\ lists'[g] = lists[g]
                /\ k8s_exc'[g] = [kind |-> "timeout", last_error |-> last_error[g]]
           /\ (k8s_exc'[g].kind = "timeout" /\ k8s_exc[g].kind # "timeout") =>
                /\ pc[g] = "k8s"
                /\ now[g] >= kdeadline[g]
                /\ k8s_exc'[g].last_error = last_error[g]
      ]_vars

\* timeout_seconds 400 and interval 75: the Kubernetes wait started at 0,
\* issued list-nodes calls at 0, 75, 150 and 225 and timed out at 300, its
\* exception carrying the HTTP error of a failed call
C16_Witness ==
    \E g \in Groups :
        /\ Config(g).timeout_seconds = 400
        /\ describes[g] = 1
        /\ lists[g] = 4 /\ mints[g] = 4
        /\ now[g] = 300
        /\ k8s_exc[g] = [kind |-> "timeout", last_error |-> "HTTP 500"]

\* the step is a list-nodes call of g that returned items
ListedItems(g) == lists'[g] = lists[g] + 1 /\ last_list'[g].kind = "items"

ListFailed(g) ==
    /\ lists'[g] = lists[g] + 1
    /\ last_list'[g].kind \in {"api_exception", "other_exception"}

HeldFiles == {ca_file_path[g][1] : g \in {h \in Groups : pc[h] = "k8s"}}

\* C19 as stated: a temporary CA file exists only while the Kubernetes wait
\* that created it is running; once the wait has returned or raised, on any
\* exit path, the file it created no longer exists.
C19_Original == files \subseteq HeldFiles

\* the wait variables of g
WaitVars(g) ==
    <<pc[g], now[g], last[g], describes[g], mints[g], lists[g], kdeadline[g],
      last_error[g], last_list[g], ca_file_path[g], k8s_exc[g], result[g], raised[g]>>

\* C20: the waits of different groups share no state: two running Kubernetes
\* waits hold different CA files, the file a running wait holds exists (no
\* other wait's cleanup deleted it), a step of one group's wait changes no
\* variable of another group's wait and deletes no file a running wait of
\* another group holds; so each wait proceeds, and returns, as it would alone.
C20_WaitsShareNothing ==
    [][\A g, h \in Groups :
        g # h =>
            /\ (pc[g] = "k8s" /\ pc[h] = "k8s") => ca_file_path[g] # ca_file_path[h]
            /\ pc[g] = "k8s" => (ca_file_path[g] # <<>> /\ ca_file_path[g][1] \in files)
            /\ (pc[g] # "absent" /\ WaitVars(g)' # WaitVars(g)) =>
                 /\ WaitVars(h)' = WaitVars(h)
                 /\ pc[h] = "k8s" => ca_file_path[h][1] \in files'
      ]_vars

\* both groups' Kubernetes waits ran at once; one has ended and removed its CA
\* file, the other is still running and its file still exists
C20_Witness ==
    \E g, h \in Groups :
        /\ g # h
        /\ pc[g] = "done" /\ ca_file_path[g] = <<1>> /\ lists[g] > 0
        /\ pc[h] = "k8s" /\ ca_file_path[h] = <<2>> /\ lists[h] > 0
        /\ files = {2}

\* C21: healthy_instances of a describe response is the number of its
\* instances whose LifecycleState is exactly "InService" and whose HealthStatus
\* is exactly "Healthy"; an instance with another or a missing value in either
\* field ("Pending", "inservice", "Unhealthy", none) is not counted; so the
\* count lies between 0 and the number of instances, and that count is what a
\* poll records.
C21_HealthyCountExact ==
    /\ \A instances \in InstanceLists :
        /\ healthy_instances(instances) =
              Cardinality({i \in 1..Len(instances) :
                  /\ instances[i].LifecycleState = "InService"
                  /\ instances[i].HealthStatus = "Healthy"})
        /\ healthy_instances(instances) \in 0..Len(instances)
    /\ healthy_instances(<<[LifecycleState |-> "inservice", HealthStatus |-> "Healthy"],
                           [LifecycleState |-> "InService", HealthStatus |-> ""],
                           [LifecycleState |-> "InService", HealthStatus |-> "Healthy"]>>) = 1
    /\ [][\A g \in Groups :
            (Described(g) /\ last'[g].kind = "group") =>
                \E instances \in InstanceLists :
                    last'[g].healthy_instances =
                        Cardinality({i \in 1..Len(instances) :
                            /\ instances[i].LifecycleState = "InService"
                            /\ instances[i].HealthStatus = "Healthy"})
         ]_vars

\* the first poll of a group with desired capacity 1 counted no healthy
\* instance, and the wait sleeps
C21_Witness ==
    \E g \in Groups :
        /\ describes[g] = 1
        /\ pc[g] = "poll"
        /\ last[g] = [kind |-> "group", desired_capacity |-> 1, healthy_instances |-> 0]
        /\ now[g] = Config(g).poll_interval_seconds

\* C22: the healthy test of a poll reads the desired_capacity and the
\* healthy_instances of that poll's response only; the dict returned outside
\* dry-run carries the desired_capacity and healthy_instances of the one poll
\* that was judged healthy, which is the latest poll; and while the Kubernetes
\* wait runs and when it ends no describe call is issued and the recorded
\* counts do not change.
C22_SamePollSnapshot ==
    [][\A g \in Groups :
        /\ (Described(g) /\ last'[g].kind = "group") =>
             ((pc'[g] \in {"k8s", "done"}) <=>
                 \/ last'[g].desired_capacity = 0
                 \/ last'[g].healthy_instances >= last'[g].desired_capacity)
        /\ (~dryRun /\ result[g] = <<>> /\ result'[g] # <<>>) =>
             /\ last'[g].kind = "group"
             /\ result'[g][1].desired_capacity = last'[g].desired_capacity
             /\ result'[g][1].healthy_instances = last'[g].healthy_instances
             /\ \/ last'[g].desired_capacity = 0
                \/ last'[g].healthy_instances >= last'[g].desired_capacity
        /\ pc[g] = "k8s" =>
             /\ last'[g] = last[g]
             /\ describes'[g] = describes[g]
        /\ result[g] # <<>> => result'[g] = result[g]
      ]_vars

\* the second poll found 2 healthy instances for desired capacity 1; after two
\* list-nodes calls the dict carries the counts of that poll
C22_Witness ==
    \E g \in Groups :
        /\ describes[g] = 2
        /\ lists[g] = 2
        /\ last[g] = [kind |-> "group", desired_capacity |-> 1, healthy_instances |-> 2]
        /\ result[g] # <<>>
        /\ result[g][1].desired_capacity = 1
        /\ result[g][1].healthy_instances = 2
        /\ DetailsOf(g).status = "ready"

\* C23 as stated: the number of tokens minted equals the number of iterations
\* the Kubernetes wait has started (each iteration starts with one call of
\* _generate_bearer_token).
C23_Original == \A g \in Groups : tokens_minted(g) = mints[g]

\* C23 (amended): every list-nodes call is issued in an iteration that called
\* _generate_bearer_token first, one call per iteration, so no token serves
\* two calls; every token minted is used by exactly one list-nodes call; and
\* the tokens minted equal the iterations started except that the iteration
\* which finds no credentials starts, mints no token and ends the wait.
C23_TokenPerIteration ==
    [][\A g \in Groups :
        /\ lists'[g] # lists[g] =>
             (lists'[g] = lists[g] + 1 /\ mints'[g] = mints[g] + 1)
        /\ mints'[g] # mints[g] =>
             /\ pc[g] = "k8s"
             /\ mints'[g] = mints[g] + 1
             /\ \/ lists'[g] = lists[g] + 1
                \/ (k8s_exc'[g].kind = "credentials" /\ pc'[g] = "done")
        /\ lists'[g] = mints'[g] - (IF k8s_exc'[g].kind = "credentials" THEN 1 ELSE 0)
      ]_vars

\* the third iteration of a Kubernetes wait found no credentials: three
\* iterations started, two tokens minted and used by two list-nodes calls
C23_Witness ==
    \E g \in Groups :
        /\ k8s_exc[g].kind = "credentials"
        /\ mints[g] = 3
        /\ lists[g] = 2
        /\ pc[g] = "done"

\* the value of a base64 character in the URL-safe alphabet
ValueOf(c) == CHOOSE v \in 0..63 : UrlSafeAlphabet[v + 1] = c

\* the bytes that groups of 4, 3 or 2 base64 characters stand for
RECURSIVE b64decode(_)
b64decode(chars) ==
    LET v(i) == ValueOf(chars[i]) IN
    IF Len(chars) < 2 THEN <<>>
    ELSE IF Len(chars) = 2
    THEN <<v(1) * 4 + v(2) \div 16>>
    ELSE IF Len(chars) = 3
    THEN <<v(1) * 4 + v(2) \div 16, (v(2) % 16) * 16 + v(3) \div 4>>
    ELSE <<v(1) * 4 + v(2) \div 16, (v(2) % 16) * 16 + v(3) \div 4,
           (v(3) % 4) * 64 + v(4)>>
         \o b64decode(SubSeq(chars, 5, Len(chars)))

\* the characters of a sequence of UTF-8 bytes
decode_utf8(bytes) ==
    [i \in 1..Len(bytes) |-> CHOOSE c \in UrlChars : Utf8[c] = bytes[i]]

\* C24: a token returned by _generate_bearer_token starts with "k8s-aws-v1.";
\* what follows consists of characters of the URL-safe base64 alphabet only,
\* so the token holds no "="; its length is that of the unpadded base64
\* encoding of the URL's bytes; and decoding it yields the presigned URL.
C24_TokenFormat ==
    token.status = "returned" =>
        LET t == token.value
            body == SubSeq(t, Len(TokenPrefix) + 1, Len(t))
        IN /\ Len(t) >= Len(TokenPrefix)
           /\ SubSeq(t, 1, Len(TokenPrefix)) = TokenPrefix
           /\ \A i \in 1..Len(t) : t[i] # "="
           /\ \A i \in 1..Len(body) : \E v \in 0..63 : UrlSafeAlphabet[v + 1] = body[i]
           /\ Len(body) = (Len(signed_url) * 8 + 5) \div 6
           /\ decode_utf8(b64decode(body)) = signed_url

\* the token of the URL "h=?": three bytes whose last gives the character "_"
C24_Witness ==
    /\ signed_url = <<"h", "=", "?">>
    /\ token.status = "returned"
    /\ token.value = TokenPrefix \o <<"a", "D", "0", "_">>

\* C25: a wait with timeout 30 s and poll interval 10 s issues its describe
\* calls at 0, 10 and 20 s and never once 30 s have elapsed; when no poll was
\* healthy it ends with the timeout error after exactly 3 describe calls, at
\* 30 s, without a result.
C25_ThreePollsThenTimeout ==
    [][\A g \in Groups :
        (Config(g).timeout_seconds = 30 /\ Config(g).poll_interval_seconds = 10) =>
            /\ Described(g) => /\ now[g] = 10 * describes[g]
                               /\ describes[g] < 3
                               /\ now[g] < 30
            /\ (raised[g] = <<>> /\ raised'[g] # <<>> /\ raised'[g][1].kind = "timeout") =>
                 /\ describes'[g] = 3
                 /\ now'[g] = 30
                 /\ last'[g].kind \in {"group", "client_error", "empty"}
                 /\ last'[g].kind = "group" =>
                        ~IsHealthy(last'[g].desired_capacity, last'[g].healthy_instances)
                 /\ result'[g] = <<>>
      ]_vars

\* the wait of timeout 30 s has timed out at 30 s after 3 describe calls, the
\* third of which found 1 healthy instance of 2 desired
C25_Witness ==
    \E g \in Groups :
        /\ Config(g).timeout_seconds = 30
        /\ Config(g).poll_interval_seconds = 10
        /\ raised[g] = <<[kind |-> "timeout", asg_name |-> g, seconds |-> 30]>>
        /\ describes[g] = 3
        /\ now[g] = 30
        /\ last[g] = [kind |-> "group", desired_capacity |-> 2, healthy_instances |-> 1]
        /\ result[g] = <<>>

Terminal(g) == pc[g] \in {"done", "raised"}

\* C27 as stated: a wait that ends without a result ended with the timeout
\* error.
C27_Original ==
    \A g \in Groups : raised[g] # <<>> => raised[g][1].kind = "timeout"

\* C27 (amended): every wait that was created ends, with exactly one of three
\* outcomes: a result (pc "done"), the timeout error, or the error of a
\* describe call that is no ClientError; a wait ends without a result before
\* its deadline only through such a describe error; once a wait has ended its
\* outcome stays and it issues no describe, token or list-nodes call.
C27_Terminates ==
    /\ \A g \in Groups : (pc[g] = "start") ~> Terminal(g)
    /\ [](\A g \in Groups :
            /\ pc[g] = "done" <=> result[g] # <<>>
            /\ pc[g] = "raised" <=> raised[g] # <<>>
            /\ ~(result[g] # <<>> /\ raised[g] # <<>>)
            /\ raised[g] # <<>> =>
                 \/ raised[g][1].kind = "timeout" /\ now[g] >= Config(g).timeout_seconds
                 \/ raised[g][1].kind = "other" /\ now[g] < Config(g).timeout_seconds)
    /\ [][\A g \in Groups :
            Terminal(g) =>
                /\ pc'[g] = pc[g]
                /\ result'[g] = result[g]
                /\ raised'[g] = raised[g]
                /\ describes'[g] = describes[g]
                /\ mints'[g] = mints[g]
                /\ lists'[g] = lists[g]
       ]_vars

\* a wait of timeout 30 s ended 10 s after its start, at its second describe
\* call, with an error that is neither a result nor the timeout
C27_Witness ==
    \E g \in Groups :
        /\ Config(g).timeout_seconds = 30
        /\ pc[g] = "raised"
        /\ raised[g] = <<[kind |-> "other", asg_name |-> g, seconds |-> 10]>>
        /\ describes[g] = 2
        /\ now[g] = 10
        /\ result[g] = <<>>

\* C28: a describe call that raises an exception that is no ClientError ends
\* the wait at once: the exception leaves the wait in the same step, before
\* the deadline and without a sleep, it is not the timeout error, no result
\* is produced and no further describe call follows; a describe call after
\* which the wait is back in its loop raised ClientError, found no group or
\* found an unhealthy group.
C28_OtherDescribeErrorPropagates ==
    [][\A g \in Groups :
        /\ (Described(g) /\ last'[g].kind = "other_error") =>
             /\ pc'[g] = "raised"
             /\ raised'[g] = <<[kind |-> "other", asg_name |-> g, seconds |-> now[g]]>>
             /\ now'[g] = now[g]
             /\ now[g] < Config(g).timeout_seconds
             /\ result'[g] = <<>>
        /\ last[g].kind = "other_error" =>
             /\ pc[g] = "raised"
             /\ describes'[g] = describes[g]
             /\ raised'[g] = raised[g]
             /\ result'[g] = <<>>
        /\ (Described(g) /\ pc'[g] = "poll") =>
             last'[g].kind \in {"client_error", "empty", "group"}
      ]_vars

\* the third describe call of a wait of timeout 30 s raised an exception that
\* is no ClientError, 20 s after the start: the wait ended with that exception
C28_Witness ==
    \E g \in Groups :
        /\ Config(g).timeout_seconds = 30
        /\ describes[g] = 3
        /\ now[g] = 20
        /\ last[g].kind = "other_error"
        /\ pc[g] = "raised"
        /\ raised[g] = <<[kind |-> "other", asg_name |-> g, seconds |-> 20]>>
        /\ result[g] = <<>>

\* C29: when the Kubernetes wait ends with an exception (its timeout, missing
\* credentials, a failed import or a failed write of the CA file), the dict
\* returned carries kubernetes = {node_group: the label, ready_nodes: 0,
\* expected_ready_nodes: the desired capacity of the healthy poll, status:
\* "failed"}, whatever number of Ready nodes the list-nodes calls had
\* counted; and details with status "failed" come from such an exception only.
C29_FailedDetailsExact ==
    [][\A g \in Groups :
        /\ (k8s_exc[g].kind = "none" /\ k8s_exc'[g].kind # "none") =>
             /\ k8s_exc'[g].kind \in {"timeout", "credentials", "import", "write"}
             /\ raised'[g] = <<>>
             /\ result'[g] =
                  <<[asg_name |-> g,
                     desired_capacity |-> last'[g].desired_capacity,
                     healthy_instances |-> last'[g].healthy_instances,
                     kubernetes |->
                        <<[node_group |-> g, ready_nodes |-> 0,
                           expected_ready_nodes |-> last'[g].desired_capacity,
                           status |-> "failed"]>>]>>
        /\ (/\ result'[g] # <<>>
            /\ "kubernetes" \in DOMAIN result'[g][1]
            /\ result'[g][1].kubernetes # <<>>
            /\ result'[g][1].kubernetes[1].status = "failed") =>
             /\ k8s_exc'[g].kind # "none"
             /\ result'[g][1].kubernetes[1].ready_nodes = 0
      ]_vars

\* desired capacity 2: the latest list-nodes call counted 1 Ready node, then
\* the Kubernetes wait timed out; the details report ready_nodes 0
C29_Witness ==
    \E g \in Groups :
        /\ k8s_exc[g].kind = "timeout"
        /\ last_list[g] = [kind |-> "items", ready_nodes |-> 1]
        /\ lists[g] >= 2
        /\ result[g] # <<>>
        /\ DetailsOf(g) = [node_group |-> g, ready_nodes |-> 0,
                           expected_ready_nodes |-> 2, status |-> "failed"]

\* the opted-in groups, and those of them that have a controller in the map
OptedIn == {g \in Groups : Config(g).await}
WithController == {g \in OptedIn : g \in readiness_checks}

====
